---- MODULE Spec2Model ----
(***************************************************************************)
(* Evaluation run + labeling pipeline of the RAG assistant:                *)
(*   scripts/eval_label.py  (interactive labeling session over a run log)  *)
(*   scripts/eval_run.py    (eval run writing one record per eval item)    *)
(*                                                                         *)
(* A log file is a sequence of lines.  A line is blank (whitespace only),  *)
(* truncated (not parseable as JSON) or holds one JSON record.  An open    *)
(* text file is its content on disk plus the writer's userspace buffer;    *)
(* a killed process loses the buffer.  Timestamps (labeled_at, timestamp)  *)
(* and display-only output are not modelled.                               *)
(***************************************************************************)
EXTENDS Integers, Sequences, FiniteSets, TLC

\* ---------------------------------------------------------------- bounds
MaxLines    == 2     \* lines of the input run log
MaxStart    == 1     \* --start values 0..MaxStart
MaxLimit    == 1     \* --limit values 0..MaxLimit
MaxSessions == 2     \* labeling sessions run one after the other
MaxItems    == 3     \* items of the eval set
MaxSources  == 2     \* sources returned by one answer() call
MaxOutRows  == 3     \* lines of an output log that is only summarized

\* ------------------------------------------------------- python values
\* r.get(key) of an absent key (or a JSON null): Python's None, which is
\* not the string "None".
None == "<None>"

ANSWER_LABELS    == <<"correct", "partial", "wrong", "oos">>
RETRIEVAL_LABELS == <<"ok", "bad">>
FAILURE_BUCKETS  == <<"retrieval_miss", "chunking_issue", "grounding_failure",
                      "instruction_following", "ambiguity_handling",
                      "formatting", "other">>

Range(s) == {s[k] : k \in 1..Len(s)}

\* ------------------------------------------------------------ records
\* The fields of an eval record the labeling tool reads or writes.
Rec(rid, eid, al, rl, fb, notes) ==
    [run_id |-> rid, eval_id |-> eid, answer_label |-> al,
     retrieval_label |-> rl, failure_bucket |-> fb, label_notes |-> notes]

NoRec == Rec(None, None, None, None, None, None)

\* lines of a log file
RecLine(r) == [kind |-> "rec",   rec |-> r]
BlankLine  == [kind |-> "blank", rec |-> NoRec]
TruncLine  == [kind |-> "trunc", rec |-> NoRec]

\* ----------------------------------------------------- reading a log
\* [json.loads(x) for x in lines if x.strip()]: blank lines are filtered
\* out, json.loads raises JSONDecodeError on any other unparseable line and
\* nothing catches it.
IsBlank(line) == line.kind = "blank"

NonBlank(lines) == SelectSeq(lines, LAMBDA x : ~IsBlank(x))

JsonLoadsRaises(line) == line.kind # "rec"

LoadRows(lines) ==
    LET nb == NonBlank(lines) IN
    IF \E k \in 1..Len(nb) : JsonLoadsRaises(nb[k])
    THEN [ok |-> FALSE, rows |-> <<>>]
    ELSE [ok |-> TRUE,  rows |-> [k \in 1..Len(nb) |-> nb[k].rec]]

\* ------------------------------------------------------ buffered file
\* f.write(line) on a buffered text file: the line stays in the userspace
\* buffer, unless the buffer has reached its chunk size (full), in which
\* case the whole buffer goes to disk.
FileWrite(disk, buf, line, full) ==
    IF full THEN [disk |-> disk \o buf \o <<line>>, buf |-> <<>>]
            ELSE [disk |-> disk, buf |-> Append(buf, line)]

\* A flush that leaves the buffer where it is.
FileFlushNothing(disk, buf) == [disk |-> disk, buf |-> buf]

\* f.flush() and f.close(): everything buffered reaches the disk.
FileFlush(disk, buf) == [disk |-> disk \o buf, buf |-> <<>>]

\* Opening with mode "w" instead: the file is emptied.
OpenAppendTruncating(disk) == <<>>

\* Path.open("a"): existing content is kept, writes go to the end.
OpenAppend(disk) == disk

\* =================================================== labeling session
VARIABLES
    inFile,     \* content of the input run log (--in)
    outFile,    \* content on disk of the labeled output log (--out)
    outBuf,     \* userspace buffer of out_f
    pc,         \* position of the labeling process
    start,      \* args.start
    limit,      \* args.limit
    rows,       \* rows
    i,          \* loop variable (0-based)
    labeled,    \* labeled
    x,          \* x of _prompt_choice: the last input, stripped and lowered
    ans_label, ret_label, bucket, notes,
    summary,    \* the three count tables printed at the end
    sessions,   \* number of sessions started
    outAtStart, \* history: outFile when the current session opened it
    prompted    \* history: indices (0-based) presented in this session

labelVars == <<inFile, outFile, outBuf, pc, start, limit, rows, i, labeled, x,
               ans_label, ret_label, bucket, notes, summary, sessions,
               outAtStart, prompted>>

\* State of the eval run (scripts/eval_run.py).
VARIABLES
    evalItems,  \* EVAL_ITEMS
    runPc,      \* position of the eval-run process
    idx,        \* idx of enumerate(EVAL_ITEMS) (0-based)
    run_id,     \* run_id
    logFile,    \* content on disk of the run log at log_path
    logBuf,     \* userspace buffer of f
    written,    \* history: the records whose f.write(...) has returned
    returned    \* history: the "sources" each answer() call returned

runVars == <<evalItems, runPc, idx, run_id, logFile, logBuf, written, returned>>

\* --------------------------------------------------- operator input
\* Raw terminal input: a word, possibly padded with whitespace, possibly
\* typed in upper case.
Words == {"", "correct", "ok", "other", "unlabeled"}
RawInputs == [word : Words, pad : BOOLEAN, upper : BOOLEAN]

\* input(...).strip().lower()
StripLower(raw) == [raw EXCEPT !.pad = FALSE, !.upper = FALSE].word
\* input(...).strip()
Strip(raw) == [raw EXCEPT !.pad = FALSE].word

NotesWords == {""}
RawNotes == [word : NotesWords, pad : BOOLEAN]

\* --------------------------------------------------------- the rows
\* skip already labeled if you re-run (eval_label.py:227)
AlreadyLabeled(r) ==
    /\ r.answer_label \notin {None, "", "unlabeled"}
    /\ r.retrieval_label \notin {"None", "unlabeled"}

\* if labeled > args.limit: break (eval_label.py:223)
LimitReached(n, lim) == n > lim

\* A prompt that takes whatever the operator typed, if anything.
prompt_choice_any(choices, default, inp) ==
    IF inp # "" THEN inp ELSE None

\* One turn of the while loop of _prompt_choice on input x: the value
\* returned, or None when it prints "Invalid" and asks again.  The default
\* only decorates the prompt text.
prompt_choice(choices, default, inp) ==
    IF inp \in Range(choices) THEN inp ELSE None

\* A count that passes over the records whose field is absent or empty.
count_present_only(out_rows, key) ==
    LET has(rr) == rr[key] # None /\ rr[key] # ""
        seen == {out_rows[k][key] : k \in {m \in 1..Len(out_rows) : has(out_rows[m])}}
    IN [v \in seen |-> Cardinality({k \in 1..Len(out_rows) : out_rows[k][key] = v})]

\* _count(key) over out_rows
count(out_rows, key) ==
    LET val(rr) == IF rr[key] = None \/ rr[key] = "" THEN "unlabeled" ELSE rr[key]
        seen == {val(out_rows[k]) : k \in 1..Len(out_rows)}
    IN [v \in seen |-> Cardinality({k \in 1..Len(out_rows) : val(out_rows[k]) = v})]

NoSummary == [answer_label |-> <<>>, retrieval_label |-> <<>>, failure_bucket |-> <<>>]

\* ------------------------------------------------------ initial state
\* Label fields a record of the input log may carry.
InLabels ==
    { <<"unlabeled", "unlabeled">>, <<"correct", "ok">>, <<"correct", None>>,
      <<"correct", "">>, <<None, "ok">> }

InLineKinds ==
    {<<"blank", None, None>>, <<"trunc", None, None>>}
        \cup {<<"rec", l[1], l[2]>> : l \in InLabels}

\* eval ids of the run log, by index
EvalId(k) == "q" \o ToString(k)

\* The k-th line (1-based) of the run log; a record's eval_id is its index.
InLine(kind, k) ==
    IF kind[1] = "blank" THEN BlankLine
    ELSE IF kind[1] = "trunc" THEN TruncLine
    ELSE RecLine(Rec("run1", EvalId(k - 1), kind[2], kind[3], None, None))

InFiles ==
    UNION { { [k \in 1..n |-> InLine(f[k], k)] : f \in [1..n -> InLineKinds] }
            : n \in 0..MaxLines }

\* What the output log may hold before the first session.
PreOutFiles ==
    { <<>>, <<TruncLine>>,
      <<BlankLine, RecLine(Rec("run0", "q0", "wrong", "bad", "other", ""))>> }

InitLabel ==
    /\ inFile \in InFiles
    /\ outFile \in PreOutFiles
    /\ outBuf = <<>>
    /\ pc = "idle"
    /\ start = 0 /\ limit = 0
    /\ rows = <<>>
    /\ i = 0 /\ labeled = 0
    /\ x = None
    /\ ans_label = None /\ ret_label = None /\ bucket = None /\ notes = None
    /\ summary = NoSummary
    /\ sessions = 0
    /\ outAtStart = outFile
    /\ prompted = <<>>

\* ------------------------------------------------------------ actions
\* main() up to the loop: parse the arguments, load the input log, open
\* the output log for append.
StartSession(st, lim) ==
    /\ pc \in {"idle", "done", "error", "killed"}
    /\ sessions < MaxSessions
    /\ sessions' = sessions + 1
    /\ start' = st /\ limit' = lim
    /\ LET in == LoadRows(inFile) IN
         IF ~in.ok
         THEN /\ pc' = "error"
              /\ UNCHANGED <<rows, outFile>>
         ELSE /\ pc' = "loop"
              /\ rows' = in.rows
              /\ outFile' = OpenAppend(outFile)
    /\ outAtStart' = outFile
    /\ outBuf' = <<>>
    /\ i' = st /\ labeled' = 0
    /\ x' = None
    /\ ans_label' = None /\ ret_label' = None /\ bucket' = None /\ notes' = None
    /\ summary' = NoSummary
    /\ prompted' = <<>>
    /\ UNCHANGED inFile
    /\ UNCHANGED runVars

\* One pass through the head of the for loop, up to the first prompt.
LoopStep ==
    /\ pc = "loop"
    /\ IF i >= Len(rows) \/ LimitReached(labeled, limit)
       THEN /\ pc' = "close"
            /\ UNCHANGED <<i, prompted>>
       ELSE IF AlreadyLabeled(rows[i + 1])
       THEN /\ pc' = "loop"
            /\ i' = i + 1
            /\ UNCHANGED prompted
       ELSE /\ pc' = "answer_label"
            /\ prompted' = Append(prompted, i)
            /\ UNCHANGED i
    /\ UNCHANGED <<inFile, outFile, outBuf, start, limit, rows, labeled, x,
                   ans_label, ret_label, bucket, notes, summary, sessions,
                   outAtStart>>
    /\ UNCHANGED runVars

\* One input() of _prompt_choice for answer_label.
PromptAnswerLabel(raw) ==
    /\ pc = "answer_label"
    /\ x' = StripLower(raw)
    /\ LET got == prompt_choice(ANSWER_LABELS, "partial", x') IN
         IF got = None
         THEN UNCHANGED <<pc, ans_label>>
         ELSE pc' = "retrieval_label" /\ ans_label' = got
    /\ UNCHANGED <<inFile, outFile, outBuf, start, limit, rows, i, labeled,
                   ret_label, bucket, notes, summary, sessions, outAtStart,
                   prompted>>
    /\ UNCHANGED runVars

PromptRetrievalLabel(raw) ==
    /\ pc = "retrieval_label"
    /\ x' = StripLower(raw)
    /\ LET got == prompt_choice(RETRIEVAL_LABELS, "ok", x') IN
         IF got = None
         THEN UNCHANGED <<pc, ret_label>>
         ELSE pc' = "failure_bucket" /\ ret_label' = got
    /\ UNCHANGED <<inFile, outFile, outBuf, start, limit, rows, i, labeled,
                   ans_label, bucket, notes, summary, sessions, outAtStart,
                   prompted>>
    /\ UNCHANGED runVars

PromptFailureBucket(raw) ==
    /\ pc = "failure_bucket"
    /\ x' = StripLower(raw)
    /\ LET got == prompt_choice(FAILURE_BUCKETS, "other", x') IN
         IF got = None
         THEN UNCHANGED <<pc, bucket>>
         ELSE pc' = "notes" /\ bucket' = got
    /\ UNCHANGED <<inFile, outFile, outBuf, start, limit, rows, i, labeled,
                   ans_label, ret_label, notes, summary, sessions, outAtStart,
                   prompted>>
    /\ UNCHANGED runVars

\* _prompt_free("notes")
PromptFree(raw) ==
    /\ pc = "notes"
    /\ notes' = Strip(raw)
    /\ pc' = "write"
    /\ UNCHANGED <<inFile, outFile, outBuf, start, limit, rows, i, labeled, x,
                   ans_label, ret_label, bucket, summary, sessions, outAtStart,
                   prompted>>
    /\ UNCHANGED runVars

\* r[...] = ...; out_f.write(json.dumps(r) + "\n")
WriteLabeled(full) ==
    /\ pc = "write"
    /\ LET r == [rows[i + 1] EXCEPT !.answer_label = ans_label,
                                    !.retrieval_label = ret_label,
                                    !.failure_bucket = bucket,
                                    !.label_notes = notes]
           w == FileWrite(outFile, outBuf, RecLine(r), full)
       IN /\ rows' = [rows EXCEPT ![i + 1] = r]
          /\ outFile' = w.disk
          /\ outBuf' = w.buf
    /\ pc' = "flush"
    /\ UNCHANGED <<inFile, start, limit, i, labeled, x, ans_label, ret_label,
                   bucket, notes, summary, sessions, outAtStart, prompted>>
    /\ UNCHANGED runVars

\* out_f.flush()
FlushLabeled ==
    /\ pc = "flush"
    /\ LET w == FileFlush(outFile, outBuf) IN
         outFile' = w.disk /\ outBuf' = w.buf
    /\ pc' = "saved"
    /\ UNCHANGED <<inFile, start, limit, rows, i, labeled, x, ans_label,
                   ret_label, bucket, notes, summary, sessions, outAtStart,
                   prompted>>
    /\ UNCHANGED runVars

\* labeled += 1; print("Saved label ..."); next iteration
CountLabeled ==
    /\ pc = "saved"
    /\ labeled' = labeled + 1
    /\ i' = i + 1
    /\ pc' = "loop"
    /\ UNCHANGED <<inFile, outFile, outBuf, start, limit, rows, x, ans_label,
                   ret_label, bucket, notes, summary, sessions, outAtStart,
                   prompted>>
    /\ UNCHANGED runVars

\* Reading only the lines this session added.
out_rows_of_session(disk) ==
    LoadRows(SubSeq(disk, Len(outAtStart) + 1, Len(disk)))

\* out_rows: the output file is read again, whole (eval_label.py:266).
out_rows(disk) == LoadRows(disk)

\* finally: out_f.close(), then the summary over the whole output file.
CloseAndSummarize ==
    /\ pc = "close"
    /\ LET w   == FileFlush(outFile, outBuf)
           out == out_rows(w.disk)
       IN /\ outFile' = w.disk
          /\ outBuf' = w.buf
          /\ IF ~out.ok
             THEN pc' = "error" /\ UNCHANGED summary
             ELSE /\ pc' = "done"
                  /\ summary' = [answer_label    |-> count(out.rows, "answer_label"),
                                 retrieval_label |-> count(out.rows, "retrieval_label"),
                                 failure_bucket  |-> count(out.rows, "failure_bucket")]
    /\ UNCHANGED <<inFile, start, limit, rows, i, labeled, x, ans_label,
                   ret_label, bucket, notes, sessions, outAtStart, prompted>>
    /\ UNCHANGED runVars

InSession ==
    pc \in {"loop", "answer_label", "retrieval_label", "failure_bucket",
            "notes", "write", "flush", "saved", "close"}

\* The process is terminated (killed): what is still buffered is lost.
KillSession ==
    /\ InSession
    /\ pc' = "killed"
    /\ outBuf' = <<>>
    /\ UNCHANGED <<inFile, outFile, start, limit, rows, i, labeled, x,
                   ans_label, ret_label, bucket, notes, summary, sessions,
                   outAtStart, prompted>>
    /\ UNCHANGED runVars

\* The steps of a session once it has started.
SessionStep ==
    \/ LoopStep
    \/ \E raw \in RawInputs : PromptAnswerLabel(raw)
    \/ \E raw \in RawInputs : PromptRetrievalLabel(raw)
    \/ \E raw \in RawInputs : PromptFailureBucket(raw)
    \/ \E raw \in RawNotes : PromptFree(raw)
    \/ \E full \in BOOLEAN : WriteLabeled(full)
    \/ FlushLabeled
    \/ CountLabeled
    \/ CloseAndSummarize
    \/ KillSession

\* =========================================================== eval run
\* Queries as typed into EVAL_ITEMS: empty, whitespace only, padded text.
Queries == { [word |-> "",   pad |-> FALSE],
             [word |-> "",   pad |-> TRUE],
             [word |-> "A?", pad |-> TRUE] }

SourceNames == {"doc1", "doc2"}

\* What answer() may return as "sources".
SourceLists == UNION { [1..n -> SourceNames] : n \in 0..MaxSources }

EvalSets ==
    UNION { { [k \in 1..n |-> [id |-> EvalId(k), query |-> q[k]]]
              : q \in [1..n -> Queries] } : n \in 0..MaxItems }

\* The test without the strip(): only the empty string is skipped.
SkipsItemUnstripped(item) == item.query.word = "" /\ ~item.query.pad

\* if not query: continue (eval_run.py:148-152)
SkipsItem(item) == Strip(item.query) = ""

\* enumerate(sources) without start=1: ranks from 0.
retrieved_for_log_from0(sources) ==
    [k \in 1..Len(sources) |-> [rank |-> k - 1, source |-> sources[k]]]

\* for rank, src in enumerate(sources, start=1)
retrieved_for_log(sources) ==
    [k \in 1..Len(sources) |-> [rank |-> k, source |-> sources[k]]]

\* The record of eval_run.py:183-197 (times are not modelled).
\* The record with the items counted from one.
RunRecordFrom1(rid, item, index, sources) ==
    [run_id |-> rid, eval_id |-> item.id, index |-> index + 1,
     query |-> Strip(item.query), answer |-> "ans",
     retrieved |-> retrieved_for_log(sources),
     answer_label |-> "unlabeled", retrieval_label |-> "unlabeled"]

RunRecord(rid, item, index, sources) ==
    [run_id |-> rid, eval_id |-> item.id, index |-> index,
     query |-> Strip(item.query), answer |-> "ans",
     retrieved |-> retrieved_for_log(sources),
     answer_label |-> "unlabeled", retrieval_label |-> "unlabeled"]

\* log_path.open("w"): the file is created, or emptied if it exists.
OpenWrite(disk) == <<>>

\* A file that is never closed: the buffer is dropped with the process.
WithExitUnclosed(disk, buf) == [disk |-> disk, buf |-> <<>>]

\* Leaving the with block, normally or by an exception: f.close().
WithExit(disk, buf) == FileFlush(disk, buf)

\* What may be at log_path before the run opens it: nothing, or the log of
\* a run that computed the same path (the same clock reading).
PreLogFiles ==
    { <<>>,
      <<RecLine(RunRecord("run0", [id |-> "q1", query |-> [word |-> "A?", pad |-> FALSE]],
                          0, <<>>))>> }

InitRun ==
    /\ evalItems \in EvalSets
    /\ runPc = "idle"
    /\ idx = 0
    /\ run_id = None
    /\ logFile \in PreLogFiles
    /\ logBuf = <<>>
    /\ written = <<>>
    /\ returned = <<>>

\* run_eval() up to the loop.
StartRun ==
    /\ runPc = "idle"
    /\ run_id' = "run1"
    /\ logFile' = OpenWrite(logFile)
    /\ logBuf' = <<>>
    /\ idx' = 0
    /\ runPc' = "loop"
    /\ UNCHANGED <<evalItems, written, returned>>
    /\ UNCHANGED labelVars

\* An item whose query is empty after strip(): continue.
SkipItem ==
    /\ runPc = "loop"
    /\ idx < Len(evalItems)
    /\ SkipsItem(evalItems[idx + 1])
    /\ idx' = idx + 1
    /\ UNCHANGED <<evalItems, runPc, run_id, logFile, logBuf, written, returned>>
    /\ UNCHANGED labelVars

\* answer() returns: the record is built and written (not flushed).
AskReturns(sources, full) ==
    /\ runPc = "loop"
    /\ idx < Len(evalItems)
    /\ ~SkipsItem(evalItems[idx + 1])
    /\ LET record == RunRecord(run_id, evalItems[idx + 1], idx, sources)
           w == FileWrite(logFile, logBuf, [kind |-> "rec", rec |-> record], full)
       IN /\ logFile' = w.disk
          /\ logBuf' = w.buf
          /\ written' = Append(written, record)
          /\ returned' = Append(returned, sources)
    /\ idx' = idx + 1
    /\ UNCHANGED <<evalItems, runPc, run_id>>
    /\ UNCHANGED labelVars

\* answer() raises (retrieval or client set-up fails): the exception leaves
\* the with block and run_eval.
AskRaises ==
    /\ runPc = "loop"
    /\ idx < Len(evalItems)
    /\ ~SkipsItem(evalItems[idx + 1])
    /\ LET w == WithExit(logFile, logBuf) IN
         logFile' = w.disk /\ logBuf' = w.buf
    /\ runPc' = "raised"
    /\ UNCHANGED <<evalItems, idx, run_id, written, returned>>
    /\ UNCHANGED labelVars

\* The loop is over: the with block closes the file, the summary is printed.
FinishRun ==
    /\ runPc = "loop"
    /\ idx >= Len(evalItems)
    /\ LET w == WithExit(logFile, logBuf) IN
         logFile' = w.disk /\ logBuf' = w.buf
    /\ runPc' = "done"
    /\ UNCHANGED <<evalItems, idx, run_id, written, returned>>
    /\ UNCHANGED labelVars

\* The process is terminated (killed) between two statements of the loop or
\* while answer() is in flight: what is still buffered is lost.
KillRun ==
    /\ runPc = "loop"
    /\ runPc' = "killed"
    /\ logBuf' = <<>>
    /\ UNCHANGED <<evalItems, idx, run_id, logFile, written, returned>>
    /\ UNCHANGED labelVars

NextEval ==
    \/ StartRun
    \/ SkipItem
    \/ \E sources \in SourceLists, full \in BOOLEAN : AskReturns(sources, full)
    \/ AskRaises
    \/ FinishRun
    \/ KillRun

\* ===================================================== specifications
vars == <<labelVars, runVars>>

\* The tool that is not running.
LabelIdle ==
    /\ inFile = <<>> /\ outFile = <<>> /\ outBuf = <<>> /\ pc = "off"
    /\ start = 0 /\ limit = 0 /\ rows = <<>> /\ i = 0 /\ labeled = 0
    /\ x = None /\ ans_label = None /\ ret_label = None /\ bucket = None
    /\ notes = None /\ summary = NoSummary /\ sessions = 0
    /\ outAtStart = <<>> /\ prompted = <<>>

RunIdle ==
    /\ evalItems = <<>> /\ runPc = "off" /\ idx = 0 /\ run_id = None
    /\ logFile = <<>> /\ logBuf = <<>> /\ written = <<>> /\ returned = <<>>

\* Labeling sessions, one after the other, over one run log and one output
\* log, with any --start and --limit.
Init == InitLabel /\ RunIdle
Next ==
    \/ \E st \in 0..MaxStart, lim \in 0..MaxLimit : StartSession(st, lim)
    \/ SessionStep
Spec == Init /\ [][Next]_vars

\* The same, every session with --limit >= 1.
NextPositiveLimit ==
    \/ \E st \in 0..MaxStart, lim \in 1..MaxLimit : StartSession(st, lim)
    \/ SessionStep
SpecPositiveLimit == Init /\ [][NextPositiveLimit]_vars

\* Sessions that find nothing to label and only summarize an output log,
\* whose records may lack a label field or hold an empty one.
SummaryLabels ==
    { <<"correct", "ok", "other">>, <<"partial", "bad", None>>,
      <<"", "", "">>, <<None, None, None>>,
      <<"unlabeled", "unlabeled", None>>, <<"correct", "bad", "formatting">> }

SummaryLines ==
    {BlankLine} \cup
    { RecLine(Rec("run1", "q0", l[1], l[2], l[3], None)) : l \in SummaryLabels }

SummaryFiles == UNION { [1..n -> SummaryLines] : n \in 0..MaxOutRows }

InitSummary ==
    /\ inFile = <<>>
    /\ outFile \in SummaryFiles
    /\ outBuf = <<>>
    /\ pc = "idle"
    /\ start = 0 /\ limit = 0
    /\ rows = <<>>
    /\ i = 0 /\ labeled = 0
    /\ x = None
    /\ ans_label = None /\ ret_label = None /\ bucket = None /\ notes = None
    /\ summary = NoSummary
    /\ sessions = 0
    /\ outAtStart = outFile
    /\ prompted = <<>>
    /\ RunIdle

NextSummary ==
    \/ \E st \in 0..MaxStart, lim \in 0..MaxLimit : StartSession(st, lim)
    \/ LoopStep
    \/ CloseAndSummarize
SpecSummary == InitSummary /\ [][NextSummary]_vars

\* One eval run.
InitEval == InitRun /\ LabelIdle
SpecRun == InitEval /\ [][NextEval]_vars

\* ============================================================= claims
IsPrefix(s, t) == Len(s) <= Len(t) /\ SubSeq(t, 1, Len(s)) = s

\* The lines the current session has added to the output log on disk.
Added == SubSeq(outFile, Len(outAtStart) + 1, Len(outFile))

PromptPcs == {"answer_label", "retrieval_label", "failure_bucket", "notes"}

\* "labeled" in the words of the data model: both labels present, not empty
\* and not "unlabeled".
BothLabelsSet(r) ==
    /\ r.answer_label \notin {None, "", "unlabeled"}
    /\ r.retrieval_label \notin {None, "", "unlabeled"}

\* The records of the lines that hold one, in file order.
ValidRecords(lines) ==
    LET v == SelectSeq(lines, LAMBDA l : l.kind = "rec")
    IN [k \in 1..Len(v) |-> v[k].rec]

\* C1: in one session with limit L, at most L records are prompted for and
\* at most L lines are appended to the output log.
C1_AtMostLimitLabeled ==
    sessions >= 1 =>
        /\ Len(prompted) <= limit
        /\ Len(outFile) + Len(outBuf) - Len(outAtStart) <= limit

\* C2: while the limit is not reached, the loop skips the record at i
\* (no prompt, no append) exactly when both of its labels are set, and
\* presents it to the operator otherwise.
C2_SkipsIffBothLabelsSet ==
    [][ (pc = "loop" /\ i < Len(rows) /\ labeled < limit /\ pc' # "killed")
        => IF BothLabelsSet(rows[i + 1])
           THEN pc' = "loop" /\ i' = i + 1 /\ prompted' = prompted
                /\ outFile' = outFile /\ outBuf' = outBuf
           ELSE pc' = "answer_label" /\ prompted' = Append(prompted, i) ]_vars

\* C3: whatever sessions have run over the same run log into the same output
\* log, the output log holds at most one line per (run_id, eval_id).
C3_OneLinePerRecord ==
    \A k, m \in 1..Len(outFile) :
        (/\ outFile[k].kind = "rec" /\ outFile[m].kind = "rec"
         /\ outFile[k].rec.run_id = outFile[m].rec.run_id
         /\ outFile[k].rec.eval_id = outFile[m].rec.eval_id) => k = m

\* C4: an empty input to a choice prompt makes the prompt return its
\* default at once: partial, ok, other.
C4_EmptyInputReturnsDefault ==
    [][ (pc \in {"answer_label", "retrieval_label", "failure_bucket"}
         /\ pc' # "killed" /\ x' = "")
        => \/ pc = "answer_label" /\ pc' = "retrieval_label" /\ ans_label' = "partial"
           \/ pc = "retrieval_label" /\ pc' = "failure_bucket" /\ ret_label' = "ok"
           \/ pc = "failure_bucket" /\ pc' = "notes" /\ bucket' = "other" ]_vars

\* C5: reading a log never aborts: neither loading the input log nor the
\* re-read of the output log for the summary ends in an error, and the rows
\* loaded are the valid records of the input log in file order.
C5_ReadToleratesMalformedLines ==
    /\ pc # "error"
    /\ (pc = "loop" /\ prompted = <<>>) => rows = ValidRecords(inFile)

\* C6: the output log only grows at its end: in every step its content
\* before the step is a prefix of its content after the step.
C6_OutputAppendOnly == [][IsPrefix(outFile, outFile')]_vars

\* A second session has added a line to an output log that was not empty
\* when it opened it.
C6_Witness ==
    sessions >= 2 /\ Len(outAtStart) >= 2 /\ Len(outFile) > Len(outAtStart)

\* C7: at every moment of a session, also after it was killed, each record
\* whose append has returned is a complete line of the output log on disk,
\* in labeling order; whenever the operator is being prompted all records
\* presented before are on disk, and at most the record in progress is not.
C7_AppendedBeforeNextPrompt ==
    sessions >= 1 =>
        /\ Len(Added) >= labeled
        /\ Len(Added) <= Len(prompted)
        /\ Len(prompted) - Len(Added) <= 1
        /\ pc \in PromptPcs => Len(Added) = Len(prompted) - 1
        /\ pc = "saved" => Len(Added) = labeled + 1
        /\ \A k \in 1..Len(Added) :
              /\ Added[k].kind = "rec"
              /\ Added[k].rec.eval_id = ValidRecords(inFile)[prompted[k] + 1].eval_id
              /\ Added[k].rec.answer_label \in Range(ANSWER_LABELS)
              /\ Added[k].rec.retrieval_label \in Range(RETRIEVAL_LABELS)
              /\ Added[k].rec.failure_bucket \in Range(FAILURE_BUCKETS)

\* The session was killed while its second record was in progress; the
\* first is on disk.
C7_Witness ==
    /\ pc = "killed" /\ labeled = 1 /\ Len(prompted) = 2
    /\ Len(outFile) = Len(outAtStart) + 1

\* C8: if the eval run is killed after its N-th write, reading the run log
\* yields exactly the N records written, in write order.
C8_WrittenRecordsSurviveKill ==
    runPc = "killed" =>
        /\ LoadRows(logFile).ok
        /\ LoadRows(logFile).rows = written

\* Indices (1-based) of the eval items whose query is not empty once
\* stripped, among the first n items, in order.
RECURSIVE AnsweredUpTo(_)
AnsweredUpTo(n) ==
    IF n = 0 THEN <<>>
    ELSE IF evalItems[n].query.word # ""
         THEN Append(AnsweredUpTo(n - 1), n)
         ELSE AnsweredUpTo(n - 1)

\* The log holds one complete record for each item of ks, in order, with the
\* item's id, the run's run_id and placeholder labels.
LogHoldsExactly(ks) ==
    /\ Len(logFile) = Len(ks)
    /\ \A k \in 1..Len(ks) :
          /\ logFile[k].kind = "rec"
          /\ logFile[k].rec.eval_id = evalItems[ks[k]].id
          /\ logFile[k].rec.index = ks[k] - 1
          /\ logFile[k].rec.run_id = run_id
          /\ logFile[k].rec.answer_label = "unlabeled"
          /\ logFile[k].rec.retrieval_label = "unlabeled"

\* C9: a completed eval run has written exactly one record per item whose
\* query is non-empty after stripping, in benchmark order, each with the
\* item's id, the run's single run_id and both labels "unlabeled".
C9_OneRecordPerAnsweredItem ==
    runPc = "done" =>
        /\ run_id # None
        /\ logBuf = <<>>
        /\ LogHoldsExactly(AnsweredUpTo(Len(evalItems)))

\* A completed run over three items, one of them skipped.
C9_Witness ==
    runPc = "done" /\ Len(evalItems) = 3 /\ Len(logFile) = 2

\* C10: when answer() raises at item idx, the log holds exactly the complete
\* records of the items answered before it: none for idx or later, nothing
\* left unwritten, no partial line.
C10_RaiseKeepsEarlierRecords ==
    runPc = "raised" =>
        /\ logBuf = <<>>
        /\ LogHoldsExactly(AnsweredUpTo(idx))
        /\ LoadRows(logFile).ok /\ LoadRows(logFile).rows = written
        /\ \A k \in 1..Len(logFile) : logFile[k].rec.index < idx

\* answer() raised at the second item of three, after one record was written.
C10_Witness ==
    runPc = "raised" /\ idx = 1 /\ Len(evalItems) = 3 /\ Len(logFile) = 1

\* C11: every record written by the eval run has a retrieved sequence as
\* long as the sources answer() returned for it, in the same order, with
\* rank values 1, 2, ..., also when there are no sources.
C11_RanksFollowSources ==
    /\ Len(written) = Len(returned)
    /\ \A k \in 1..Len(written) :
          LET got == written[k].retrieved
              src == returned[k]
          IN /\ Len(got) = Len(src)
             /\ \A j \in 1..Len(got) :
                   got[j].rank = j /\ got[j].source = src[j]
    /\ \A k \in 1..Len(logFile) :
          logFile[k].kind = "rec" =>
             \A j \in 1..Len(logFile[k].rec.retrieved) :
                 logFile[k].rec.retrieved[j].rank = j

\* A completed run whose log holds a record with two different sources,
\* doc2 before doc1, and a record with none.
C11_Witness ==
    /\ runPc = "done"
    /\ \E k \in 1..Len(logFile) :
          /\ Len(logFile[k].rec.retrieved) = 2
          /\ logFile[k].rec.retrieved[1].source = "doc2"
          /\ logFile[k].rec.retrieved[2].source = "doc1"
    /\ \E k \in 1..Len(logFile) : logFile[k].rec.retrieved = <<>>

\* C12: when a file already exists at the computed log path, the run does
\* not start writing: it fails, and the lines of the existing log stay.
C12_ExistingLogRefused ==
    [][ (runPc = "idle" /\ logFile # <<>>)
        => (runPc' # "loop" /\ logFile' = logFile) ]_vars

\* The sum of the counts of a table.
RECURSIVE SumOver(_, _)
SumOver(f, keys) ==
    IF keys = {} THEN 0
    ELSE LET v == CHOOSE k \in keys : TRUE
         IN f[v] + SumOver(f, keys \ {v})

Total(table) == SumOver(table, DOMAIN table)

\* The records of the output log whose field key is v.
RecordsWith(key, vs) ==
    {k \in 1..Len(outFile) : outFile[k].kind = "rec" /\ outFile[k].rec[key] \in vs}

LabelFields == {"answer_label", "retrieval_label", "failure_bucket"}

\* C13: for each label field the counts of the summary add up to the number
\* of records of the log, and the records whose field is absent or empty are
\* the ones counted, with the literal ones, under "unlabeled".
C13_CountsAddUp ==
    pc = "done" =>
        \A key \in LabelFields :
            /\ Total(summary[key]) = Len(ValidRecords(outFile))
            /\ None \notin DOMAIN summary[key]
            /\ "" \notin DOMAIN summary[key]
            /\ LET unl == RecordsWith(key, {None, "", "unlabeled"}) IN
                 IF unl = {} THEN "unlabeled" \notin DOMAIN summary[key]
                 ELSE /\ "unlabeled" \in DOMAIN summary[key]
                      /\ summary[key]["unlabeled"] = Cardinality(unl)

\* A summary of three records: one without answer_label, one with an empty
\* one, one labeled.
C13_Witness ==
    /\ pc = "done"
    /\ Len(ValidRecords(outFile)) = 3
    /\ RecordsWith("answer_label", {None}) # {}
    /\ RecordsWith("answer_label", {""}) # {}
    /\ RecordsWith("answer_label", {"correct"}) # {}

\* The values of a label field that the summary counts under v.
CountedAs(v) == IF v = "unlabeled" THEN {None, "", "unlabeled"} ELSE {v}

\* C14: the summary printed when a session ends is taken over the whole
\* output log: each count is the number of records of the file, the lines
\* that were there before the session and the lines it appended, that hold
\* the value.
C14_SummaryOverWholeLog ==
    pc = "done" =>
        /\ IsPrefix(outAtStart, outFile)
        /\ \A key \in LabelFields :
              /\ \A v \in DOMAIN summary[key] :
                    summary[key][v] = Cardinality(RecordsWith(key, CountedAs(v)))
              /\ \A k \in 1..Len(outFile) :
                    outFile[k].kind = "rec" =>
                       \E v \in DOMAIN summary[key] : outFile[k].rec[key] \in CountedAs(v)

\* The second session ends on a log that holds an older line and the lines
\* of both sessions.
C14_Witness ==
    /\ pc = "done"
    /\ sessions = 2
    /\ Len(ValidRecords(outAtStart)) = 2
    /\ Len(ValidRecords(outFile)) = 3
    /\ summary["answer_label"] = ("wrong" :> 1) @@ ("correct" :> 2)

\* U: the records at positions >= start that do not hold both labels.
NotYetLabeled ==
    {k \in (start + 1)..Len(rows) : ~BothLabelsSet(rows[k])}

MinOf(a, b) == IF a <= b THEN a ELSE b

\* C15: a session that ran to its end has labeled at least min(limit, U)
\* records, U being the number of records at positions >= start that are not
\* yet labeled; the records it skipped as already labeled cost nothing.
C15_LabelsUpToLimit ==
    pc = "done" => labeled >= MinOf(limit, Cardinality(NotYetLabeled))

\* The choices offered at a choice prompt.
ChoicesAt(p) ==
    IF p = "answer_label" THEN Range(ANSWER_LABELS)
    ELSE IF p = "retrieval_label" THEN Range(RETRIEVAL_LABELS)
    ELSE Range(FAILURE_BUCKETS)

\* The lines the current session has written, on disk or still buffered.
WrittenBySession == Added \o outBuf

LogRecords == ValidRecords(logFile \o logBuf)

====
